---- MODULE Spec2Model ----
(***************************************************************************)
(* Auction price prediction service: model registry, inference engine,     *)
(* market price feed and historical data store (app/services).             *)
(***************************************************************************)
EXTENDS Integers, Sequences, FiniteSets, TLC

VARIABLES
    files,              \* artifact files present under models/
    MODELS,             \* model_inference.MODELS: model_key -> bundle
    loads,              \* number of joblib.load calls per artifact file
    DATA_SOURCE,        \* settings.DATA_SOURCE
    METAL_PRICE_CACHE,  \* data_loader.METAL_PRICE_CACHE: cache_key -> series pair
    pending,            \* the call about to be made and its arguments
    result              \* outcome of the last call

vars == <<files, MODELS, loads, DATA_SOURCE, METAL_PRICE_CACHE, pending, result>>

(***************************************************************************)
(* Bounds                                                                  *)
(***************************************************************************)
MaxLoads == 2       \* joblib.load calls counted per artifact
MaxPred  == 2       \* regressor outputs range over 0..MaxPred
MaxRows  == 2       \* rows of AuctionData.xlsx
MaxLookback == 2    \* lookback_days arguments range over 1..MaxLookback
MaxAuctionRows == 2 \* auction rows on file when a feature vector is built

(***************************************************************************)
(* app/config.py                                                           *)
(***************************************************************************)
SettingsFields ==
    {"DATA_SOURCE", "COPPER_PRICE_DEF", "ZINC_PRICE_DEF",
     "HISTORICAL_DATA_LMT", "DB_URL", "MARKET_API_URL"}

\* attribute access settings.<name>: defined only for the declared fields
HasSetting(name) == name \in SettingsFields

COPPER_PRICE_DEF == 800000
ZINC_PRICE_DEF == 300000
HISTORICAL_DATA_LMT == 3

(***************************************************************************)
(* app/services/model_inference.py                                         *)
(***************************************************************************)
Targets == <<"proposed_rp", "lbp">>
Quantiles == <<"q5", "q50", "q90">>

TargetSet == {Targets[i] : i \in 1..Len(Targets)}
QuantileSet == {Quantiles[i] : i \in 1..Len(Quantiles)}

\* group names a caller passes
GroupNames == {"cylinder", "Cylinders", "valve", "VALVES", "brass", "pipe"}

\* str.lower()
Lower(s) ==
    CASE s = "Cylinders" -> "cylinders"
      [] s = "VALVES" -> "valves"
      [] OTHER -> s

PRODUCT_GROUP_PREFIX ==
    [g \in {"cylinder", "cylinders", "valve", "valves", "brass"} |->
        CASE g \in {"cylinder", "cylinders"} -> "cyl"
          [] g \in {"valve", "valves"} -> "valve"
          [] OTHER -> "brass"]

normalize_product_group(product_group) ==
    IF Lower(product_group) \in DOMAIN PRODUCT_GROUP_PREFIX
    THEN PRODUCT_GROUP_PREFIX[Lower(product_group)]
    ELSE Lower(product_group)

\* f"{prefix}_{target}_{q}.joblib"
ModelName(prefix, target, q) == <<prefix, target, q>>
BrassModelName == <<"brass", "index", "model">>

Prefixes == {normalize_product_group(g) : g \in GroupNames}

AllArtifacts ==
    {ModelName(p, t, q) : p \in {"cyl", "valve"}, t \in TargetSet, q \in QuantileSet}
        \cup {BrassModelName}

\* the (target, q) pairs in the order the nested loops of load_models visit them
LoadOrder ==
    [i \in 1..(Len(Targets) * Len(Quantiles)) |->
        <<Targets[((i - 1) \div Len(Quantiles)) + 1],
          Quantiles[((i - 1) % Len(Quantiles)) + 1]>>]

\* number of loop iterations of load_models that complete before the first
\* missing file (all of them when no file is missing)
LoadedBeforeRaise(prefix) ==
    LET missing == {i \in DOMAIN LoadOrder :
                        ModelName(prefix, LoadOrder[i][1], LoadOrder[i][2]) \notin files}
    IN  IF missing = {} THEN Len(LoadOrder)
        ELSE (CHOOSE i \in missing : \A j \in missing : i <= j) - 1

\* MODELS[model_key] after n loop iterations
BundleAfter(prefix, n) ==
    [t \in TargetSet |->
        LET qs == {q \in QuantileSet :
                     \E i \in 1..n : LoadOrder[i] = <<t, q>>}
        IN  [q \in qs |-> ModelName(prefix, t, q)]]

CountLoad(cnt, names) ==
    [a \in DOMAIN cnt |-> IF a \in names THEN cnt[a] + 1 ELSE cnt[a]]

\* load_models(product_group): the bundle returned or the error raised, and the
\* cache and load counts it leaves behind
load_models(product_group) ==
    LET prefix == normalize_product_group(product_group)
        n == LoadedBeforeRaise(prefix)
        loaded == {ModelName(prefix, LoadOrder[i][1], LoadOrder[i][2]) : i \in 1..n}
    IN  IF prefix = "brass"
        THEN IF BrassModelName \notin files
             THEN [kind |-> "FileNotFoundError", bundle |-> <<>>,
                   models |-> MODELS, loads |-> loads]
             ELSE [kind |-> "ok",
                   bundle |-> [t \in {"proposed_rp"} |-> [q \in {"q50"} |-> BrassModelName]],
                   models |-> MODELS,
                   loads |-> CountLoad(loads, {BrassModelName})]
        ELSE IF prefix \notin DOMAIN MODELS
             THEN LET after == [k \in DOMAIN MODELS \cup {prefix} |->
                                   IF k = prefix THEN BundleAfter(prefix, n) ELSE MODELS[k]]
                  IN  IF n < Len(LoadOrder)
                      THEN [kind |-> "FileNotFoundError", bundle |-> <<>>,
                            models |-> after, loads |-> CountLoad(loads, loaded)]
                      ELSE [kind |-> "ok", bundle |-> after[prefix],
                            models |-> after, loads |-> CountLoad(loads, loaded)]
             ELSE [kind |-> "ok", bundle |-> MODELS[prefix],
                   models |-> MODELS, loads |-> loads]

LoadModels(product_group) ==
    LET r == load_models(product_group)
    IN  /\ \A a \in DOMAIN r.loads : r.loads[a] <= MaxLoads
        /\ MODELS' = r.models
        /\ loads' = r.loads
        /\ result' = [op |-> "load_models", product_group |-> product_group,
                      kind |-> r.kind, bundle |-> r.bundle]
        /\ UNCHANGED <<files, DATA_SOURCE, METAL_PRICE_CACHE, pending>>

\* expected_features of run_inference
BaseFeatures ==
    {"year", "month", "quantity", "ewm_proposed_rp", "ewm_last_bid_price",
     "day_of_week", "day_of_month", "week_of_year", "days_since_last_auction",
     "auction_frequency_7d", "price_momentum_7d", "price_momentum_30d",
     "quantity_trend_7d", "quantity_trend_30d", "last_auction_price",
     "last_auction_quantity", "price_volatility_7d", "price_volatility_30d",
     "rolling_mean_7d_proposed_rp", "rolling_mean_30d_proposed_rp",
     "rolling_mean_7d_last_bid_price", "rolling_mean_30d_last_bid_price",
     "rolling_std_7d_proposed_rp", "rolling_std_30d_proposed_rp",
     "rolling_std_7d_last_bid_price", "rolling_std_30d_last_bid_price",
     "price_change_1d", "price_change_7d", "price_change_30d",
     "quantity_change_1d", "quantity_change_7d", "quantity_change_30d"}

ValveFeatures ==
    {"brass_index_poly", "brass_index_momentum_7d",
     "brass_index_momentum_30d", "brass_index_volatility_7d"}

\* the expected list without the valve extension
expected_features_baseOnly(normalized_group) == BaseFeatures

expected_features(normalized_group) ==
    IF normalized_group = "valve" THEN BaseFeatures \cup ValveFeatures ELSE BaseFeatures

\* column sets of the feature_df a caller passes
CylinderColumns == BaseFeatures \cup {"auction_frequency_30d"}
ValveColumns ==
    BaseFeatures \cup ValveFeatures
        \cup {"auction_frequency_30d", "brass_index", "brass_index_volatility_30d"}
FeatureColumnSets ==
    {CylinderColumns, ValveColumns, ValveColumns \ {"quantity", "year"}}

\* sorted(): insertion of x into an ascending sequence, then the sort itself
RECURSIVE Insert(_, _)
Insert(x, s) ==
    IF s = <<>> THEN <<x>>
    ELSE IF x < Head(s) THEN <<x>> \o s
    ELSE <<Head(s)>> \o Insert(x, Tail(s))

\* the raw outputs taken in regressor order
sorted_asGiven(s) == s

RECURSIVE sorted(_)
sorted(s) == IF s = <<>> THEN <<>> ELSE Insert(Head(s), sorted(Tail(s)))

\* the interval taken from the raw outputs instead of the sorted ones
QuantilePrediction_rawInterval(q_values) ==
    LET q_values_sorted == sorted(q_values)
    IN  [q5 |-> q_values_sorted[1],
         q50 |-> q_values_sorted[2],
         q90 |-> q_values_sorted[3],
         confidence_interval |-> q_values[3] - q_values[2]]

\* the body of the loop over targets: score, sort, assign positionally
QuantilePrediction(q_values) ==
    LET q_values_sorted == sorted(q_values)
    IN  [q5 |-> q_values_sorted[1],
         q50 |-> q_values_sorted[2],
         q90 |-> q_values_sorted[3],
         confidence_interval |-> q_values_sorted[3] - q_values_sorted[2]]

\* the loop visiting the first target only
PredictionTargets_firstOnly == {Targets[1]}

\* the keys of the predictions map for a non-brass group
PredictionTargets == TargetSet

\* run_inference up to the scoring: the error raised before any regressor is
\* asked, or "ok"; lm is the outcome of the load_models call
inference_error(lm, product_group, columns) ==
    LET normalized_group == normalize_product_group(product_group)
        models == lm.bundle
        missing_features == expected_features(normalized_group) \ columns
        complete == \A t \in TargetSet : \A q \in QuantileSet :
                        t \in DOMAIN models /\ q \in DOMAIN models[t]
    IN  IF lm.kind # "ok" THEN lm.kind
        ELSE IF missing_features # {} THEN "ValueError"
        ELSE IF normalized_group # "brass" /\ ~complete THEN "KeyError"
        ELSE "ok"

\* run_inference(product_group, quantity, input_date, feature_df); lm is the
\* outcome of its load_models call and raw gives the value each regressor's
\* predict returns
run_inference(lm, product_group, quantity, input_date, columns, raw) ==
    LET normalized_group == normalize_product_group(product_group)
        expected == expected_features(normalized_group)
        kind == inference_error(lm, product_group, columns)
    IN  IF kind # "ok"
        THEN [op |-> "run_inference", product_group |-> product_group,
              columns |-> columns, load |-> lm.kind,
              kind |-> kind, missing |-> expected \ columns]
        ELSE [op |-> "run_inference", product_group |-> product_group, kind |-> "ok",
              columns |-> columns, load |-> lm.kind,
              quantity |-> quantity, date |-> input_date, scored |-> expected, raw |-> raw,
              predictions |->
                IF normalized_group = "brass"
                THEN [t \in {"proposed_rp"} |->
                        [q50 |-> raw["proposed_rp"][2], confidence_interval |-> 0]]
                ELSE [t \in PredictionTargets |-> QuantilePrediction(raw[t])]]

Quantities == {10}
\* outputs of the three regressors of a target, in the order q5, q50, q90
RawTriples == [1..Len(Quantiles) -> 0..MaxPred]
Shifted(q_values) == [i \in DOMAIN q_values |-> (q_values[i] + 1) % (MaxPred + 1)]
RawOutputs ==
    {[t \in TargetSet |-> IF t = "proposed_rp" THEN a ELSE Shifted(a)] : a \in RawTriples}

RunInference(product_group, quantity, input_date, columns) ==
    LET lm == load_models(product_group)
    IN  /\ \A a \in DOMAIN lm.loads : lm.loads[a] <= MaxLoads
        /\ MODELS' = lm.models
        /\ loads' = lm.loads
        /\ \E raw \in IF inference_error(lm, product_group, columns) = "ok"
                       THEN RawOutputs ELSE {<<>>} :
              result' = run_inference(lm, product_group, quantity, input_date, columns, raw)
        /\ UNCHANGED <<files, DATA_SOURCE, METAL_PRICE_CACHE, pending>>

(***************************************************************************)
(* app/services/data_loader.py                                             *)
(***************************************************************************)
\* dates are day numbers; a date string is the day it denotes and whether its
\* month and day fields are zero-padded ("2025-09-12" or "2025-9-12")
RefDay == 20343
InputDays == {RefDay, RefDay + 1}
DateStrings == [day : InputDays, padded : BOOLEAN]

\* pd.to_datetime(input_date)
to_datetime(date_string) == date_string.day

\* Timestamp.strftime("%Y-%m-%d")
strftime(day) == [day |-> day, padded |-> TRUE]

DefaultLookbackDays == 30
LookbackDays == 1..MaxLookback \cup {DefaultLookbackDays}

\* pd.date_range(end=parsed_date, periods=n)
date_range(end, periods) == [i \in 1..periods |-> end - periods + i]

\* settings.<name> raises AttributeError unless Settings declares the field
SettingOrRaise(name, value) ==
    IF HasSetting(name) THEN [kind |-> "ok", value |-> value]
    ELSE [kind |-> "AttributeError"]

\* _get_fallback_metal_prices(parsed_date, lookback_days)
get_fallback_metal_prices(parsed_date, lookback_days) ==
    LET dates == date_range(parsed_date, lookback_days + 1)
        copper_price == SettingOrRaise("FALLBACK_COPPER_PRICE", COPPER_PRICE_DEF)
        zinc_price == SettingOrRaise("FALLBACK_ZINC_PRICE", ZINC_PRICE_DEF)
    IN  IF copper_price.kind # "ok" THEN [kind |-> copper_price.kind]
        ELSE IF zinc_price.kind # "ok" THEN [kind |-> zinc_price.kind]
        ELSE [kind |-> "fallback",
              copper |-> [i \in DOMAIN dates |->
                            [date |-> dates[i], price |-> copper_price.value]],
              zinc |-> [i \in DOMAIN dates |->
                            [date |-> dates[i], price |-> zinc_price.value]]]

\* what the pricing API answers to one request
ResponseKinds == {"RequestException", "ApiFailure", "Empty", "Rates"}
MaxAttempts == 3
\* an answer that ends the loop is followed by answers nobody asks for
Responses ==
    {r \in [1..MaxAttempts -> ResponseKinds] :
        \A i \in 1..MaxAttempts : r[i] # "RequestException" =>
            \A j \in (i + 1)..MaxAttempts : r[j] = "RequestException"}

\* the rates of a successful response for the window [start, end]
ApiCopper == 7
ApiZinc == 3
RatesFor(start, end) ==
    [i \in 1..(end - start + 1) |-> [date |-> start + i - 1, cu |-> ApiCopper, zn |-> ApiZinc]]

\* the retry loop: number of requests made and how the loop ends
RECURSIVE FetchLoop(_, _)
FetchLoop(responses, attempt) ==
    LET r == responses[attempt + 1]
    IN  IF r = "RequestException"
        THEN IF attempt = MaxAttempts - 1
             THEN [attempts |-> attempt + 1, exit |-> "exhausted"]
             ELSE FetchLoop(responses, attempt + 1)
        ELSE IF r = "ApiFailure"
        THEN [attempts |-> attempt + 1, exit |-> "ValueError"]
        ELSE [attempts |-> attempt + 1, exit |-> "break", data |-> r]

\* load_metal_prices(input_date, lookback_days); responses are the answers the
\* API gives to the requests the call makes
load_metal_prices(input_date, lookback_days, responses) ==
    LET parsed_date == to_datetime(input_date)
        start_date == strftime(parsed_date - lookback_days)
        end_date == input_date
        cache_key == <<start_date, end_date>>
        fallback == get_fallback_metal_prices(parsed_date, lookback_days)
        api_key == SettingOrRaise("METALPRICE_API_KEY", "key")
        loop == FetchLoop(responses, 0)
        rates == IF loop.exit = "break" /\ loop.data = "Rates"
                 THEN RatesFor(start_date.day, to_datetime(end_date)) ELSE <<>>
        default_copper == SettingOrRaise("FALLBACK_COPPER_PRICE", COPPER_PRICE_DEF)
        absorbed(n) == [kind |-> fallback.kind, key |-> cache_key, attempts |-> n,
                        copper |-> IF fallback.kind = "fallback" THEN fallback.copper ELSE <<>>,
                        zinc |-> IF fallback.kind = "fallback" THEN fallback.zinc ELSE <<>>,
                        cache |-> METAL_PRICE_CACHE]
    IN  IF cache_key \in DOMAIN METAL_PRICE_CACHE
        THEN [kind |-> "cached", key |-> cache_key, attempts |-> 0,
              copper |-> METAL_PRICE_CACHE[cache_key].copper,
              zinc |-> METAL_PRICE_CACHE[cache_key].zinc,
              cache |-> METAL_PRICE_CACHE]
        ELSE IF api_key.kind # "ok" THEN absorbed(0)
        ELSE IF loop.exit # "break" THEN absorbed(loop.attempts)
        ELSE IF rates = <<>> THEN absorbed(loop.attempts)
        ELSE IF default_copper.kind # "ok" THEN absorbed(loop.attempts)
        ELSE LET copper_df == [i \in DOMAIN rates |->
                                  [date |-> rates[i].date, price |-> rates[i].cu]]
                 zinc_df == [i \in DOMAIN rates |->
                                  [date |-> rates[i].date, price |-> rates[i].zn]]
             IN  [kind |-> "fetched", key |-> cache_key, attempts |-> loop.attempts,
                  copper |-> copper_df, zinc |-> zinc_df,
                  cache |-> [k \in DOMAIN METAL_PRICE_CACHE \cup {cache_key} |->
                                IF k = cache_key
                                THEN [copper |-> copper_df, zinc |-> zinc_df]
                                ELSE METAL_PRICE_CACHE[k]]]

LoadMetalPrices(input_date, lookback_days, responses) ==
    LET r == load_metal_prices(input_date, lookback_days, responses)
    IN  /\ METAL_PRICE_CACHE' = r.cache
        /\ result' = [op |-> "load_metal_prices", input_date |-> input_date,
                      lookback_days |-> lookback_days, responses |-> responses,
                      hit |-> r.key \in DOMAIN METAL_PRICE_CACHE,
                      kind |-> r.kind, key |-> r.key, attempts |-> r.attempts,
                      copper |-> r.copper, zinc |-> r.zinc]
        /\ UNCHANGED <<files, MODELS, loads, DATA_SOURCE, pending>>

GetFallbackMetalPrices(parsed_date, lookback_days) ==
    LET r == get_fallback_metal_prices(parsed_date, lookback_days)
    IN  /\ result' = [op |-> "_get_fallback_metal_prices", parsed_date |-> parsed_date,
                      lookback_days |-> lookback_days, kind |-> r.kind,
                      copper |-> IF r.kind = "fallback" THEN r.copper ELSE <<>>,
                      zinc |-> IF r.kind = "fallback" THEN r.zinc ELSE <<>>]
        /\ UNCHANGED <<files, MODELS, loads, DATA_SOURCE, METAL_PRICE_CACHE, pending>>

\* the static tables data/marketdata_copper.xlsx and data/marketdata_zinc.xlsx
DemoCopper == <<[date |-> RefDay - 1, price |-> 9], [date |-> RefDay, price |-> 8]>>
DemoZinc == <<[date |-> RefDay - 1, price |-> 4], [date |-> RefDay, price |-> 5]>>

\* an omitted input_date argument
None == [none |-> TRUE]

\* load_market_data(input_date); today is datetime.today()
load_market_data(input_date, today, responses) ==
    IF DATA_SOURCE = "demo"
    THEN [kind |-> "demo", copper |-> DemoCopper, zinc |-> DemoZinc,
          attempts |-> 0, key |-> None, cache |-> METAL_PRICE_CACHE]
    ELSE IF DATA_SOURCE = "api"
    THEN LET date == IF input_date = None THEN strftime(today) ELSE input_date
             r == load_metal_prices(date, DefaultLookbackDays, responses)
         IN  [kind |-> r.kind, copper |-> r.copper, zinc |-> r.zinc,
              attempts |-> r.attempts, key |-> r.key, cache |-> r.cache]
    ELSE LET copper_price == SettingOrRaise("COPPER_PRICE_DEFAULT", COPPER_PRICE_DEF)
             zinc_price == SettingOrRaise("ZINC_PRICE_DEFAULT", ZINC_PRICE_DEF)
         IN  IF copper_price.kind # "ok" \/ zinc_price.kind # "ok"
             THEN [kind |-> "AttributeError", copper |-> <<>>, zinc |-> <<>>,
                   attempts |-> 0, key |-> None, cache |-> METAL_PRICE_CACHE]
             ELSE [kind |-> "hardcoded",
                   copper |-> <<[price |-> copper_price.value]>>,
                   zinc |-> <<[price |-> zinc_price.value]>>,
                   attempts |-> 0, key |-> None, cache |-> METAL_PRICE_CACHE]

LoadMarketData(input_date, today, responses) ==
    LET r == load_market_data(input_date, today, responses)
    IN  /\ METAL_PRICE_CACHE' = r.cache
        /\ result' = [op |-> "load_market_data", input_date |-> input_date,
                      today |-> today, responses |-> responses, kind |-> r.kind,
                      attempts |-> r.attempts, copper |-> r.copper, zinc |-> r.zinc]
        /\ UNCHANGED <<files, MODELS, loads, DATA_SOURCE, pending>>

\* rows of data/AuctionData.xlsx: dates around the two ends of the lookback
\* interval of RefDay
StoreDays ==
    {RefDay - HISTORICAL_DATA_LMT * 365 - 1, RefDay - HISTORICAL_DATA_LMT * 365,
     RefDay - 1, RefDay, RefDay + 1, RefDay + 2}
StoreRows == [auction_date : StoreDays, productdescription : {"14.2 kg", "sc valve"}]

RECURSIVE SeqsUpTo(_, _)
SeqsUpTo(S, n) ==
    IF n = 0 THEN {<<>>}
    ELSE LET shorter == SeqsUpTo(S, n - 1)
         IN  shorter \cup {Append(q, x) : q \in shorter, x \in S}

Stores == SeqsUpTo(StoreRows, MaxRows)

\* load_historical_data(input_date) reading the rows store
load_historical_data(input_date, store) ==
    LET parsed_date == to_datetime(input_date)
        start_date == parsed_date - HISTORICAL_DATA_LMT * 365
        InLimit(row) == row.auction_date >= start_date
    IN  SelectSeq(store, InLimit)

LoadHistoricalData(input_date, store) ==
    /\ result' = [op |-> "load_historical_data", input_date |-> input_date,
                  store |-> store, df |-> load_historical_data(input_date, store)]
    /\ UNCHANGED <<files, MODELS, loads, DATA_SOURCE, METAL_PRICE_CACHE, pending>>

(***************************************************************************)
(* pandas / numpy arithmetic used by app/services/preprocessor.py          *)
(***************************************************************************)
\* a float is NaN, a rational num/den in lowest terms, or (root) the square
\* root of such a rational
Floats == [nan : BOOLEAN, num : Int, den : Int, root : BOOLEAN]

GCD[a \in Nat, b \in Nat] == IF b = 0 THEN a ELSE GCD[b, a % b]

Abs[n \in Int] == IF n < 0 THEN -n ELSE n

Fl[n \in Int, d \in Int] ==
    LET g == GCD[Abs[n], Abs[d]]
        sgn == IF d < 0 THEN -1 ELSE 1
    IN  [nan |-> FALSE, num |-> sgn * (n \div g), den |-> sgn * (d \div g), root |-> FALSE]

NaN == [nan |-> TRUE, num |-> 0, den |-> 1, root |-> FALSE]
Zero == [nan |-> FALSE, num |-> 0, den |-> 1, root |-> FALSE]

FAdd[x \in Floats, y \in Floats] == Fl[x.num * y.den + y.num * x.den, x.den * y.den]
FDiv[x \in Floats, y \in Floats] == Fl[x.num * y.den, x.den * y.num]

\* np.sqrt of a non-negative rational
FSqrt[x \in Floats] == IF x.num = 0 THEN x ELSE [x EXCEPT !.root = TRUE]

\* the Python expression (x or 0): only a zero is falsy, NaN is not
OrZero[x \in Floats] == IF ~x.nan /\ x.num = 0 THEN Zero ELSE x

SumSeq[xs \in Seq(Int)] == IF xs = <<>> THEN 0 ELSE Head(xs) + SumSeq[Tail(xs)]

SumSquares[xs \in Seq(Int)] ==
    IF xs = <<>> THEN 0 ELSE Head(xs) * Head(xs) + SumSquares[Tail(xs)]

\* Series.mean() of integer values
Mean[xs \in Seq(Int)] == IF xs = <<>> THEN NaN ELSE Fl[SumSeq[xs], Len(xs)]

\* Series.std(): sample standard deviation (ddof = 1), NaN below two values;
\* scale is the common denominator of the values
Std[xs \in Seq(Int), scale \in Nat] ==
    LET n == Len(xs)
    IN  IF n < 2 THEN NaN
        ELSE FSqrt[Fl[n * SumSquares[xs] - SumSeq[xs] * SumSeq[xs],
                      n * (n - 1) * scale * scale]]

\* Series.pct_change().mean(): the first change is NaN and is skipped
SumPctChange[xs \in Seq(Int)] ==
    IF Len(xs) < 2 THEN Zero
    ELSE FAdd[Fl[xs[2] - xs[1], xs[1]], SumPctChange[Tail(xs)]]

PctChangeMean[xs \in Seq(Int)] ==
    IF Len(xs) < 2 THEN NaN
    ELSE FDiv[SumPctChange[xs], Fl[Len(xs) - 1, 1]]

Pow[b \in Nat, e \in Nat] == IF e = 0 THEN 1 ELSE b * Pow[b, e - 1]

\* Series.ewm(span=7).mean().iloc[-1]: alpha = 2/(span+1) = 1/4, weights
\* (3/4)^i on the i-th value counted back from the last
EwmSpan == 7
EwmNum[xs \in Seq(Int), n \in Nat] ==
    IF xs = <<>> THEN 0
    ELSE Pow[EwmSpan - 1, Len(xs) - 1] * Pow[EwmSpan + 1, n - Len(xs)] * Head(xs)
            + EwmNum[Tail(xs), n]

EwmLast[xs \in Seq(Int)] ==
    Fl[EwmNum[xs, Len(xs)], EwmNum[[i \in 1..Len(xs) |-> 1], Len(xs)]]

(***************************************************************************)
(* Timestamp fields                                                        *)
(***************************************************************************)
\* month and day from the day of the year counted from 1 March
CivilOf[era \in Int, yoe \in Nat, doy \in Nat] ==
    LET mp == (5 * doy + 2) \div 153
        m == IF mp < 10 THEN mp + 3 ELSE mp - 9
    IN  [year |-> yoe + era * 400 + (IF m <= 2 THEN 1 ELSE 0), month |-> m,
         day |-> doy - (153 * mp + 2) \div 5 + 1]

\* year of the 400-year era from the day of the era
YearOfEra[doe \in Nat] ==
    (doe - doe \div 1460 + doe \div 36524 - doe \div 146096) \div 365

\* year, month and day of a day number (days since 1970-01-01)
Civil[day \in Int] ==
    LET era == (day + 719468) \div 146097
        doe == (day + 719468) - era * 146097
        yoe == YearOfEra[doe]
    IN  CivilOf[era, yoe, doe - (365 * yoe + yoe \div 4 - yoe \div 100)]

\* Timestamp.dayofweek: Monday is 0
DayOfWeek[day \in Int] == (day + 3) % 7

IsLeap[y \in Int] == (y % 4 = 0 /\ y % 100 # 0) \/ y % 400 = 0

DaysBeforeMonth == <<0, 31, 59, 90, 120, 151, 181, 212, 243, 273, 304, 334>>

DayOfYear[day \in Int] ==
    LET c == Civil[day]
    IN  DaysBeforeMonth[c.month] + c.day + (IF c.month > 2 /\ IsLeap[c.year] THEN 1 ELSE 0)

\* number of ISO weeks of the year whose 1 January is the day number jan1
WeeksInYear[jan1 \in Int, leap \in BOOLEAN] ==
    IF DayOfWeek[jan1] = 3 \/ (leap /\ DayOfWeek[jan1] = 2) THEN 53 ELSE 52

\* the ISO week of a day that is the doy-th day of year
IsoWeekOf[day \in Int, year \in Int, doy \in Nat] ==
    LET jan1 == day - doy + 1
        w == (doy - (DayOfWeek[day] + 1) + 10) \div 7
        prevJan1 == jan1 - (IF IsLeap[year - 1] THEN 366 ELSE 365)
    IN  IF w < 1 THEN WeeksInYear[prevJan1, IsLeap[year - 1]]
        ELSE IF w > WeeksInYear[jan1, IsLeap[year]] THEN 1
        ELSE w

\* Timestamp.isocalendar().week
IsoWeek[day \in Int] == IsoWeekOf[day, Civil[day].year, DayOfYear[day]]

(***************************************************************************)
(* app/services/preprocessor.py                                            *)
(***************************************************************************)
\* product descriptions found in the auction rows
Descriptions == {"14.2 kg", "SC Valve", "regulator"}

\* product_description.lower().strip()
LowerStrip(product_description) ==
    CASE product_description = "SC Valve" -> "sc valve"
      [] OTHER -> product_description

CylinderSkus ==
    {"14.2 kg", "19 kg", "5 kg", "47.5 kg", "5 kg ftlr", "5 kg nd",
     "47.5 kg lotv", "19 kg sc", "19 kg ncut", "5 kg ftl", "14.2 kg omc"}
ValveSkus == {"sc valve", "liquid offtake valve"}

\* the keywords that occur in product as a substring
KeywordsIn(product) ==
    CASE product = "sc valve" -> {"valve"}
      [] OTHER -> {}

\* any(keyword in product for keyword in keywords)
HasKeyword(product, keywords) == KeywordsIn(product) \cap keywords # {}

\* map_product_group with every description filed under cylinder
map_product_group_allCylinder(product_description) == "cylinder"

\* map_product_group(product_description); None when nothing matches
map_product_group(product_description) ==
    LET product == LowerStrip(product_description)
    IN  IF product \in CylinderSkus THEN "cylinder"
        ELSE IF product \in ValveSkus THEN "valve"
        ELSE IF HasKeyword(product, {"cylinder", "cylinders"}) THEN "cylinder"
        ELSE IF HasKeyword(product, {"valve", "valves", "brass valve", "bronze valve"})
        THEN "valve"
        ELSE "None"

\* the frames preprocess_data is given: auction rows and metal price tables
AuctionFrames ==
    Seq([auction_date : Int, productdescription : STRING, proposed_rp : Int,
         last_bid_price : Int, quantity : Int])
MetalFrames == Seq([date : Int, price : Int])

\* df[column] as a sequence of values
Col[df \in AuctionFrames, column \in STRING] == [i \in DOMAIN df |-> df[i][column]]

\* Series.max()
MaxOf[xs \in Seq(Int)] ==
    CHOOSE x \in {xs[i] : i \in DOMAIN xs} : \A i \in DOMAIN xs : xs[i] <= x

\* iloc[-1] - iloc[0] if len > 1 else 0
LastMinusFirst[xs \in Seq(Int)] ==
    IF Len(xs) > 1 THEN Fl[xs[Len(xs)] - xs[1], 1] ELSE Zero

\* the key without its window length
WindowKey_noWindow(prefix, window_days, suffix) == prefix \o suffix

WindowKey(prefix, window_days, suffix) == prefix \o ToString(window_days) \o suffix

\* the features of one pass of the loop over window_days in [7, 30]
WindowFeatures[window_days \in Nat, window_df \in AuctionFrames] ==
    LET K(prefix, suffix) == WindowKey(prefix, window_days, suffix)
        keys == {K("auction_frequency_", "d"), K("price_momentum_", "d"),
                 K("quantity_trend_", "d"), K("price_volatility_", "d"),
                 K("rolling_mean_", "d_proposed_rp"), K("rolling_mean_", "d_last_bid_price"),
                 K("rolling_std_", "d_proposed_rp"), K("rolling_std_", "d_last_bid_price"),
                 K("price_change_", "d"), K("quantity_change_", "d")}
    IN  IF window_df = <<>>
        THEN [k \in keys |-> Zero]
        ELSE [k \in keys |->
                CASE k = K("auction_frequency_", "d") -> Fl[Len(window_df), 1]
                  [] k = K("price_momentum_", "d") ->
                        OrZero[PctChangeMean[Col[window_df, "proposed_rp"]]]
                  [] k = K("quantity_trend_", "d") ->
                        OrZero[PctChangeMean[Col[window_df, "quantity"]]]
                  [] k = K("price_volatility_", "d") ->
                        OrZero[Std[Col[window_df, "proposed_rp"], 1]]
                  [] k = K("rolling_mean_", "d_proposed_rp") ->
                        Mean[Col[window_df, "proposed_rp"]]
                  [] k = K("rolling_mean_", "d_last_bid_price") ->
                        Mean[Col[window_df, "last_bid_price"]]
                  [] k = K("rolling_std_", "d_proposed_rp") ->
                        OrZero[Std[Col[window_df, "proposed_rp"], 1]]
                  [] k = K("rolling_std_", "d_last_bid_price") ->
                        OrZero[Std[Col[window_df, "last_bid_price"], 1]]
                  [] k = K("price_change_", "d") ->
                        LastMinusFirst[Col[window_df, "proposed_rp"]]
                  [] k = K("quantity_change_", "d") ->
                        LastMinusFirst[Col[window_df, "quantity"]]]

\* the rows dated on or after parsed_date - days
Since(df, parsed_date, days) ==
    LET InWindow(row) == row.auction_date >= parsed_date - days
    IN  SelectSeq(df, InWindow)

\* df[df["date"] >= parsed_date - days] of a metal price table
MetalSince(df, parsed_date, days) ==
    LET InWindow(row) == row.date >= parsed_date - days
    IN  SelectSeq(df, InWindow)

\* df[df["date"] <= parsed_date] of a metal price table
MetalUpTo(df, parsed_date) ==
    LET NotAfter(row) == row.date <= parsed_date
    IN  SelectSeq(df, NotAfter)

\* 0.6 * copper + 0.4 * zinc of two tables that share their dates, in tenths
BrassTenths[window_copper \in MetalFrames, window_zinc \in MetalFrames] ==
    [i \in DOMAIN window_copper |-> 6 * window_copper[i].price + 4 * window_zinc[i].price]

\* brass_index_momentum and brass_index_volatility of one window
BrassWindow[window_copper \in MetalFrames, window_zinc \in MetalFrames] ==
    IF window_copper = <<>> \/ window_zinc = <<>>
    THEN [momentum |-> Zero, volatility |-> Zero]
    ELSE [momentum |-> OrZero[PctChangeMean[BrassTenths[window_copper, window_zinc]]],
          volatility |-> OrZero[Std[BrassTenths[window_copper, window_zinc], 10]]]

\* the latest price of a table filtered to date <= parsed_date, or the setting
LatestOrSetting[upto \in MetalFrames, name \in STRING, value \in Int] ==
    IF upto # <<>> THEN [kind |-> "ok", value |-> upto[Len(upto)].price]
    ELSE SettingOrRaise(name, value)

\* the brass features from the two latest prices, in tenths of the index
BrassIndex[tenths \in Int, copper_df \in MetalFrames, zinc_df \in MetalFrames, parsed_date \in Int] ==
    [k \in {"brass_index", "brass_index_momentum_7d", "brass_index_volatility_7d",
            "brass_index_momentum_30d", "brass_index_volatility_30d",
            "brass_index_poly"} |->
        CASE k = "brass_index" -> Fl[tenths, 10]
          [] k = "brass_index_momentum_7d" ->
                BrassWindow[MetalSince(copper_df, parsed_date, 7),
                            MetalSince(zinc_df, parsed_date, 7)].momentum
          [] k = "brass_index_volatility_7d" ->
                BrassWindow[MetalSince(copper_df, parsed_date, 7),
                            MetalSince(zinc_df, parsed_date, 7)].volatility
          [] k = "brass_index_momentum_30d" ->
                BrassWindow[MetalSince(copper_df, parsed_date, 30),
                            MetalSince(zinc_df, parsed_date, 30)].momentum
          [] k = "brass_index_volatility_30d" ->
                BrassWindow[MetalSince(copper_df, parsed_date, 30),
                            MetalSince(zinc_df, parsed_date, 30)].volatility
          [] k = "brass_index_poly" -> Fl[tenths * tenths, 100]]

\* the brass features of a valve request
BrassFeatures[copper_df \in MetalFrames, zinc_df \in MetalFrames, parsed_date \in Int] ==
    LET latest_copper == LatestOrSetting[MetalUpTo(copper_df, parsed_date),
                                         "FALLBACK_COPPER_PRICE", COPPER_PRICE_DEF]
        latest_zinc == LatestOrSetting[MetalUpTo(zinc_df, parsed_date),
                                       "FALLBACK_ZINC_PRICE", ZINC_PRICE_DEF]
    IN  IF latest_copper.kind # "ok" THEN [kind |-> latest_copper.kind]
        ELSE IF latest_zinc.kind # "ok" THEN [kind |-> latest_zinc.kind]
        ELSE [kind |-> "ok",
              latest_copper |-> latest_copper.value,
              latest_zinc |-> latest_zinc.value,
              features |->
                 BrassIndex[6 * latest_copper.value + 4 * latest_zinc.value,
                            copper_df, zinc_df, parsed_date]]

\* the features set before the windows, from the request's own date
CalendarFeatures[as_of_date \in Int, quantity \in Int] ==
    [k \in {"year", "month", "quantity", "day_of_week", "day_of_month",
            "week_of_year"} |->
        CASE k = "year" -> Fl[Civil[as_of_date].year, 1]
          [] k = "month" -> Fl[Civil[as_of_date].month, 1]
          [] k = "quantity" -> Fl[quantity, 1]
          [] k = "day_of_week" -> Fl[DayOfWeek[as_of_date], 1]
          [] k = "day_of_month" -> Fl[Civil[as_of_date].day, 1]
          [] k = "week_of_year" -> Fl[IsoWeek[as_of_date], 1]]

\* last-auction, EWM and 1-day features
RecencyFeatures[auction_df \in AuctionFrames, parsed_date \in Int, max_data_date \in Int, last_auction \in AuctionFrames] ==
    [k \in {"days_since_last_auction", "last_auction_price", "last_auction_quantity",
            "ewm_proposed_rp", "ewm_last_bid_price",
            "price_change_1d", "quantity_change_1d"} |->
        CASE k = "days_since_last_auction" -> Fl[parsed_date - max_data_date, 1]
          [] k = "last_auction_price" -> Fl[last_auction[1].proposed_rp, 1]
          [] k = "last_auction_quantity" -> Fl[last_auction[1].quantity, 1]
          [] k = "ewm_proposed_rp" -> OrZero[EwmLast[Col[auction_df, "proposed_rp"]]]
          [] k = "ewm_last_bid_price" -> OrZero[EwmLast[Col[auction_df, "last_bid_price"]]]
          [] k = "price_change_1d" ->
                LastMinusFirst[Col[Since(auction_df, parsed_date, 1), "proposed_rp"]]
          [] k = "quantity_change_1d" ->
                LastMinusFirst[Col[Since(auction_df, parsed_date, 1), "quantity"]]]

\* preprocess_data after the group filter and the clamp of parsed_date;
\* auction_df holds the rows of the group and is not empty
DynamicFeatures[product_group \in STRING, quantity \in Int, as_of_date \in Int, auction_df \in AuctionFrames, max_data_date \in Int, parsed_date \in Int, copper_df \in MetalFrames, zinc_df \in MetalFrames] ==
    LET AtMax(row) == row.auction_date = max_data_date
        base == CalendarFeatures[as_of_date, quantity]
                  @@ WindowFeatures[7, Since(auction_df, parsed_date, 7)]
                  @@ WindowFeatures[30, Since(auction_df, parsed_date, 30)]
                  @@ RecencyFeatures[auction_df, parsed_date, max_data_date,
                                     SelectSeq(auction_df, AtMax)]
    IN  IF product_group # "valve"
        THEN [kind |-> "ok", features |-> base, parsed_date |-> parsed_date]
        ELSE IF BrassFeatures[copper_df, zinc_df, parsed_date].kind # "ok"
        THEN [kind |-> BrassFeatures[copper_df, zinc_df, parsed_date].kind,
              message |-> "settings"]
        ELSE [kind |-> "ok",
              features |-> base @@ BrassFeatures[copper_df, zinc_df, parsed_date].features,
              parsed_date |-> parsed_date,
              latest_copper |-> BrassFeatures[copper_df, zinc_df, parsed_date].latest_copper,
              latest_zinc |-> BrassFeatures[copper_df, zinc_df, parsed_date].latest_zinc]

\* parsed_date for the window calculations: not later than the last record
ClampedDate[as_of_date \in Int, max_data_date \in Int] ==
    IF as_of_date > max_data_date THEN max_data_date ELSE as_of_date

\* preprocess_data without the step that moves parsed_date back to the last record
preprocess_data_noClamp(product_group, quantity, input_date, auction_df, market_data) ==
    LET InGroup(row) == map_product_group(row.productdescription) = product_group
        group_df == SelectSeq(auction_df, InGroup)
    IN  IF group_df = <<>>
        THEN [kind |-> "ValueError", message |-> "No historical data"]
        ELSE DynamicFeatures[product_group, quantity, to_datetime(input_date), group_df,
                             MaxOf[Col[group_df, "auction_date"]],
                             to_datetime(input_date),
                             market_data.copper, market_data.zinc]

\* preprocess_data(product_group, quantity, input_date, auction_df, market_data)
preprocess_data(product_group, quantity, input_date, auction_df, market_data) ==
    LET InGroup(row) == map_product_group(row.productdescription) = product_group
        group_df == SelectSeq(auction_df, InGroup)
    IN  IF group_df = <<>>
        THEN [kind |-> "ValueError", message |-> "No historical data"]
        ELSE DynamicFeatures[product_group, quantity, to_datetime(input_date), group_df,
                             MaxOf[Col[group_df, "auction_date"]],
                             ClampedDate[to_datetime(input_date),
                                         MaxOf[Col[group_df, "auction_date"]]],
                             market_data.copper, market_data.zinc]

\* the auction rows a request may find in data/AuctionData.xlsx: dated before
\* the lookback limit, before either window, inside the 30-day window only,
\* the day before, the day of and the day after the request; cylinder lots at
\* two prices, valve lots, and a lot of neither group
AuctionDays ==
    {RefDay - HISTORICAL_DATA_LMT * 365 - 1, RefDay - 40, RefDay - 20,
     RefDay - 1, RefDay, RefDay + 1}
AuctionValues ==
    {[proposed_rp |-> 1, last_bid_price |-> 2, quantity |-> 3],
     [proposed_rp |-> 2, last_bid_price |-> 4, quantity |-> 1]}
AuctionRows ==
    {[auction_date |-> d, productdescription |-> "14.2 kg", proposed_rp |-> v.proposed_rp,
      last_bid_price |-> v.last_bid_price, quantity |-> v.quantity] :
        d \in AuctionDays, v \in AuctionValues}
    \cup {[auction_date |-> d, productdescription |-> "SC Valve", proposed_rp |-> 2,
           last_bid_price |-> 4, quantity |-> 1] : d \in AuctionDays}
    \cup {[auction_date |-> RefDay, productdescription |-> "regulator", proposed_rp |-> 1,
           last_bid_price |-> 2, quantity |-> 3]}
AuctionStores == SeqsUpTo(AuctionRows, MaxAuctionRows)

\* the copper and zinc tables a request may be given: the demo tables, tables
\* stored newest first that reach past the request date, a table that ends
\* before the 7-day window, and a feed window that starts after the request
\* date; a cylinder request reads none of them
MarketTables ==
    {[copper |-> DemoCopper, zinc |-> DemoZinc],
     [copper |-> <<[date |-> RefDay + 1, price |-> ApiCopper],
                   DemoCopper[2], DemoCopper[1]>>,
      zinc |-> <<[date |-> RefDay + 1, price |-> ApiZinc], DemoZinc[2], DemoZinc[1]>>],
     [copper |-> <<[date |-> RefDay - 10, price |-> ApiCopper]>>,
      zinc |-> <<[date |-> RefDay - 10, price |-> ApiZinc]>>],
     [copper |-> <<[date |-> RefDay + 1, price |-> ApiCopper],
                   [date |-> RefDay + 2, price |-> ApiCopper]>>,
      zinc |-> <<[date |-> RefDay + 1, price |-> ApiZinc],
                 [date |-> RefDay + 2, price |-> ApiZinc]>>]}

\* no call is waiting
Idle == [op |-> "none"]

\* a request waiting to be preprocessed
FeatureCalls ==
    [op : {"preprocess_data"}, product_group : {"valve"}, quantity : Quantities,
     input_date : {strftime(RefDay)}, store : AuctionStores, market_data : MarketTables]
    \cup [op : {"preprocess_data"}, product_group : {"cylinder"}, quantity : Quantities,
          input_date : {strftime(RefDay)}, store : AuctionStores,
          market_data : {[copper |-> DemoCopper, zinc |-> DemoZinc]}]

\* predict's steps up to the feature vector: load_historical_data, then
\* preprocess_data on what it returned
PreprocessData ==
    /\ pending.op = "preprocess_data"
    /\ \E auction_df \in {load_historical_data(pending.input_date, pending.store)} :
       \E r \in {preprocess_data(pending.product_group, pending.quantity,
                                 pending.input_date, auction_df, pending.market_data)} :
          result' = [op |-> "preprocess_data", product_group |-> pending.product_group,
                     quantity |-> pending.quantity, input_date |-> pending.input_date,
                     store |-> pending.store, auction_df |-> auction_df,
                     market_data |-> pending.market_data, kind |-> r.kind,
                     features |-> IF r.kind = "ok" THEN r.features ELSE <<>>,
                     parsed_date |-> IF r.kind = "ok" THEN r.parsed_date ELSE 0,
                     latest_copper |-> IF r.kind = "ok" /\ pending.product_group = "valve"
                                       THEN r.latest_copper ELSE 0,
                     latest_zinc |-> IF r.kind = "ok" /\ pending.product_group = "valve"
                                     THEN r.latest_zinc ELSE 0]
    /\ pending' = Idle
    /\ UNCHANGED <<files, MODELS, loads, DATA_SOURCE, METAL_PRICE_CACHE>>

(***************************************************************************)
(* app/routers/predict.py                                                  *)
(***************************************************************************)
\* the date field of a request body: the day it denotes, whether month and
\* day are zero-padded, and its separators ("2025-09-12", "2025-9-12",
\* "2025/09/12")
RequestDates == [day : {RefDay}, padded : BOOLEAN, separator : {"-", "/"}]

\* datetime.strptime(v, "%Y-%m-%d"): %m and %d also match one digit
strptime(v) ==
    IF v.separator = "-"
    THEN [kind |-> "ok", value |-> [day |-> v.day, padded |-> v.padded]]
    ELSE [kind |-> "ValueError"]

\* any(word in v_lower for word in words)
AnyWordIn(v_lower, words) ==
    \/ "cylinder" \in words /\ v_lower \in {"cylinder", "cylinders"}
    \/ "valve" \in words /\ v_lower \in {"valve", "valves"}

\* PredictionInput.validate_product_group
validate_product_group(v) ==
    LET v_lower == Lower(v)
    IN  IF AnyWordIn(v_lower, {"cylinder", "cylinders"})
        THEN [kind |-> "ok", value |-> "cylinder"]
        ELSE IF AnyWordIn(v_lower, {"valve", "valves"})
        THEN [kind |-> "ok", value |-> "valve"]
        ELSE [kind |-> "ValueError"]

\* PredictionInput.validate_date
validate_date(v) ==
    IF strptime(v).kind = "ok" THEN [kind |-> "ok", value |-> strptime(v).value]
    ELSE [kind |-> "ValueError"]

\* request bodies; the store is what data/AuctionData.xlsx holds when the
\* request arrives
RequestQuantities == {0} \cup Quantities
RequestStores == {<<>>} \cup {<<row>> : row \in AuctionRows}
Requests ==
    [op : {"predict"}, product_group : GroupNames, quantity : RequestQuantities,
     date : RequestDates, store : RequestStores]

\* the server's clock when the request arrives
Today == RefDay + 1

\* what predict answers: the status, the error raised, the core operations
\* invoked in order, the (start_date, end_date) pair load_market_data asked
\* the pricing API for (None when it asked for none), and the predictions
Answer(status, detail, calls, market_key, predictions) ==
    [op |-> "predict", request |-> pending, status |-> status,
     detail |-> detail, calls |-> calls, market_key |-> market_key,
     predictions |-> predictions]

CoreCalls == <<"load_historical_data", "load_market_data", "preprocess_data", "run_inference">>

\* POST /predict: validation of the body, then predict(input_data)
Predict ==
    /\ pending.op = "predict"
    /\ pending' = Idle
    /\ UNCHANGED <<files, DATA_SOURCE>>
    /\ \E group \in {validate_product_group(pending.product_group)},
          date \in {validate_date(pending.date)} :
          IF group.kind # "ok" \/ date.kind # "ok" \/ ~(pending.quantity > 0)
          THEN /\ result' = Answer(422, "validation", <<>>, None, <<>>)
               /\ UNCHANGED <<MODELS, loads, METAL_PRICE_CACHE>>
          ELSE
          \E market \in {load_market_data(None, Today,
                                          [i \in 1..MaxAttempts |-> "RequestException"])} :
          /\ METAL_PRICE_CACHE' = market.cache
          /\ IF market.kind = "AttributeError"
             THEN /\ result' = Answer(400, market.kind, SubSeq(CoreCalls, 1, 2),
                                          market.key, <<>>)
                  /\ UNCHANGED <<MODELS, loads>>
             ELSE
             \E feature_df \in
                   {preprocess_data(group.value, pending.quantity, date.value,
                                    load_historical_data(date.value, pending.store),
                                    [copper |-> market.copper, zinc |-> market.zinc])} :
                IF feature_df.kind # "ok"
                THEN /\ result' = Answer(400, feature_df.kind, SubSeq(CoreCalls, 1, 3),
                                             market.key, <<>>)
                     /\ UNCHANGED <<MODELS, loads>>
                ELSE
                \E lm \in {load_models(group.value)} :
                   /\ MODELS' = lm.models
                   /\ loads' = lm.loads
                   /\ \E raw \in IF inference_error(lm, group.value,
                                                    DOMAIN feature_df.features) = "ok"
                                 THEN RawOutputs ELSE {<<>>} :
                      \E r \in {run_inference(lm, group.value, pending.quantity, date.value,
                                              DOMAIN feature_df.features, raw)} :
                         result' = IF r.kind = "ok"
                                   THEN Answer(200, "ok", CoreCalls, market.key, r.predictions)
                                   ELSE Answer(400, r.kind, CoreCalls, market.key, <<>>)

\* artifact deployments considered: everything present, or one file absent
FileSets ==
    {AllArtifacts,
     AllArtifacts \ {ModelName("cyl", "lbp", "q50")},
     AllArtifacts \ {BrassModelName}}


InitCommon ==
    /\ MODELS = <<>>
    /\ loads = [a \in AllArtifacts \cup
                    {ModelName(p, t, q) : p \in Prefixes, t \in TargetSet, q \in QuantileSet}
                |-> 0]
    /\ METAL_PRICE_CACHE = <<>>
    /\ result = [op |-> "none"]

InitRegistry ==
    /\ pending = Idle
    /\ files \in FileSets
    /\ DATA_SOURCE = "demo"
    /\ InitCommon

NextRegistry ==
    \/ \E g \in GroupNames : LoadModels(g)
    \/ \E g \in GroupNames, qty \in Quantities, c \in FeatureColumnSets :
            RunInference(g, qty, "2025-09-12", c)

SpecRegistry == InitRegistry /\ [][NextRegistry]_vars

InitFeed ==
    /\ pending = Idle
    /\ files = AllArtifacts
    /\ DATA_SOURCE \in {"demo", "api", "other"}
    /\ InitCommon

NextFeed ==
    \/ \E d \in DateStrings, n \in LookbackDays, r \in Responses : LoadMetalPrices(d, n, r)
    \/ \E d \in InputDays, n \in LookbackDays : GetFallbackMetalPrices(d, n)
    \/ \E d \in DateStrings \cup {None}, t \in InputDays, r \in Responses :
            LoadMarketData(d, t, r)

SpecFeed == InitFeed /\ [][NextFeed]_vars

InitStore ==
    /\ pending = Idle
    /\ files = AllArtifacts
    /\ DATA_SOURCE = "demo"
    /\ InitCommon

NextStore ==
    \E d \in DateStrings, store \in Stores : LoadHistoricalData(d, store)

SpecStore == InitStore /\ [][NextStore]_vars

\* feature building: one request, built once
InitFeatures ==
    /\ pending \in FeatureCalls
    /\ files = AllArtifacts
    /\ DATA_SOURCE = "demo"
    /\ InitCommon

NextFeatures == PreprocessData

SpecFeatures == InitFeatures /\ [][NextFeatures]_vars

\* the endpoint: one request, answered once, every artifact deployed, prices
\* from the static tables or from the pricing API
InitPredict ==
    /\ pending \in Requests
    /\ files = AllArtifacts
    /\ DATA_SOURCE \in {"demo", "api"}
    /\ InitCommon

NextPredict == Predict

SpecPredict == InitPredict /\ [][NextPredict]_vars

(***************************************************************************)
(* Properties                                                              *)
(***************************************************************************)
InferenceOk == result.op = "run_inference" /\ result.kind = "ok"
NonBrassOk == InferenceOk /\ normalize_product_group(result.product_group) # "brass"

RequiredArtifacts(prefix) ==
    IF prefix = "brass" THEN {BrassModelName}
    ELSE {ModelName(prefix, t, q) : t \in TargetSet, q \in QuantileSet}

ArtifactMissing(product_group) ==
    ~(RequiredArtifacts(normalize_product_group(product_group)) \subseteq files)

\* C1: every successful run_inference result of a non-brass group has
\* q5 <= q50 <= q90 for each target, whatever the order of the raw outputs.
C1_QuantilesOrdered ==
    NonBrassOk =>
        \A t \in DOMAIN result.predictions :
            /\ result.predictions[t].q5 <= result.predictions[t].q50
            /\ result.predictions[t].q50 <= result.predictions[t].q90

\* a successful cylinder or valve result whose regressors answered in
\* strictly decreasing order
C1_Witness ==
    /\ NonBrassOk
    /\ \E t \in DOMAIN result.predictions :
          /\ result.raw[t][1] > result.raw[t][2]
          /\ result.raw[t][2] > result.raw[t][3]
          /\ result.predictions[t].q5 < result.predictions[t].q90

\* C2: in every successful non-brass result, confidence_interval is q90 - q50 of
\* the returned (sorted) values and is never negative.
C2_IntervalFromSorted ==
    NonBrassOk =>
        \A t \in DOMAIN result.predictions :
            /\ result.predictions[t].confidence_interval
                  = result.predictions[t].q90 - result.predictions[t].q50
            /\ result.predictions[t].confidence_interval >= 0

\* a successful result where the q90 regressor answered below the q50 regressor
\* and the interval is positive
C2_Witness ==
    /\ NonBrassOk
    /\ \E t \in DOMAIN result.predictions :
          /\ result.raw[t][3] < result.raw[t][2]
          /\ result.predictions[t].confidence_interval > 0

EntryKeys == {"q5", "q50", "q90", "confidence_interval"}

\* C3 as stated: a successful non-brass result maps exactly the keys proposed_rp
\* and last_bid_price to the four entries q5, q50, q90, confidence_interval.
C3_KeysAsStated ==
    NonBrassOk =>
        /\ DOMAIN result.predictions = {"proposed_rp", "last_bid_price"}
        /\ \A t \in DOMAIN result.predictions : DOMAIN result.predictions[t] = EntryKeys

\* C3 amended: a successful non-brass result maps exactly the keys proposed_rp
\* and lbp to the four entries q5, q50, q90, confidence_interval.
C3_KeysAmended ==
    NonBrassOk =>
        /\ DOMAIN result.predictions = {"proposed_rp", "lbp"}
        /\ \A t \in DOMAIN result.predictions : DOMAIN result.predictions[t] = EntryKeys

\* a successful valve result
C3_Witness ==
    /\ NonBrassOk
    /\ normalize_product_group(result.product_group) = "valve"
    /\ "lbp" \in DOMAIN result.predictions

\* C4: no artifact is loaded from storage more than once in a process, for
\* any of the normalized groups cyl, valve and brass.
C4_LoadedAtMostOnce == \A a \in DOMAIN loads : loads[a] <= 1

\* C5: while an artifact required for a group is missing, every load_models
\* call for the group raises the not-found error and returns no bundle, and
\* run_inference for the group returns no predictions.
C5_MissingArtifactAlwaysFails ==
    /\ (result.op = "load_models" /\ ArtifactMissing(result.product_group)) =>
            (result.kind = "FileNotFoundError" /\ result.bundle = <<>>)
    /\ (result.op = "run_inference" /\ ArtifactMissing(result.product_group)) =>
            result.kind # "ok"

FeedCall == result.op \in {"load_metal_prices", "load_market_data"}
LiveCall ==
    \/ result.op = "load_metal_prices"
    \/ result.op = "load_market_data" /\ DATA_SOURCE = "api"

IsFallbackSeries(series, parsed_date, lookback_days, price) ==
    /\ Len(series) = lookback_days + 1
    /\ \A i \in 1..Len(series) :
          /\ series[i].date = parsed_date - lookback_days + i - 1
          /\ series[i].price = price

\* the API answers the call's requests with transient errors only
AllTransient(responses) == \A i \in 1..MaxAttempts : responses[i] = "RequestException"

\* the API answers one of the call's requests with a non-empty set of rates
AnswersWithRates(responses) == \E i \in 1..MaxAttempts : responses[i] = "Rates"

\* C6: in live mode a call of load_metal_prices or load_market_data never raises:
\* it returns fetched or cached series, or else the constant fallback series.
C6_FeedFailureAbsorbed ==
    LiveCall =>
        \/ result.kind \in {"fetched", "cached"}
        \/ /\ result.kind = "fallback"
           /\ \A i \in 1..Len(result.copper) : result.copper[i].price = COPPER_PRICE_DEF
           /\ \A i \in 1..Len(result.zinc) : result.zinc[i].price = ZINC_PRICE_DEF

\* C7: a load_metal_prices call makes at most 3 fetch attempts, none after the
\* first answer that is not a transient error, and returns the fallback series
\* when the API answers all 3 attempts with a transient error.
C7_RetryThenFallback ==
    (result.op = "load_metal_prices" /\ ~result.hit) =>
        /\ result.attempts <= MaxAttempts
        /\ \A i \in 1..MaxAttempts :
              result.responses[i] # "RequestException" => result.attempts <= i
        /\ AllTransient(result.responses) => result.kind = "fallback"

\* C8: once the API has answered a load_metal_prices call for a window with a
\* non-empty set of rates, the next call for the same (start_date, end_date)
\* returns the cached series without a fetch attempt.
C8_CachedAfterSuccess ==
    [][(/\ result.op = "load_metal_prices"
        /\ AnswersWithRates(result.responses)
        /\ result'.op = "load_metal_prices"
        /\ result'.key = result.key)
            => (result'.kind = "cached" /\ result'.attempts = 0)]_vars

\* C9: the fallback for date D and lookback L has, for copper and for zinc,
\* one entry per day of [D - L, D], each at the metal's configured default.
C9_FallbackSeries ==
    result.op = "_get_fallback_metal_prices" =>
        /\ result.kind = "fallback"
        /\ IsFallbackSeries(result.copper, result.parsed_date,
                            result.lookback_days, COPPER_PRICE_DEF)
        /\ IsFallbackSeries(result.zinc, result.parsed_date,
                            result.lookback_days, ZINC_PRICE_DEF)

\* C10: load_historical_data(as_of_date) returns exactly the stored rows dated
\* in [as_of_date - lookback_years * 365 days, as_of_date].
C10_ClosedInterval ==
    result.op = "load_historical_data" =>
        LET as_of_date == to_datetime(result.input_date)
            InInterval(row) ==
                /\ row.auction_date >= as_of_date - HISTORICAL_DATA_LMT * 365
                /\ row.auction_date <= as_of_date
        IN  result.df = SelectSeq(result.store, InInterval)

\* the group a stored description stands for, as the catalogue lists them
GroupOfRecord(row) ==
    CASE row.productdescription = "14.2 kg" -> "cylinder"
      [] row.productdescription = "SC Valve" -> "valve"
      [] OTHER -> "None"

Built == result.op = "preprocess_data"
BuiltOk == Built /\ result.kind = "ok"

\* the loaded records of the requested group
Retained ==
    LET OfGroup(row) == GroupOfRecord(row) = result.product_group
    IN  SelectSeq(result.auction_df, OfGroup)

\* C11: when no loaded auction record maps to the requested product group
\* (the lookback filter may have left no record at all), preprocess_data
\* fails with the no-historical-data error and returns no feature vector
C11_NoHistoricalData ==
    Built /\ Retained = <<>> =>
        result.kind = "ValueError" /\ result.features = <<>>

\* a store holding only a record of the group older than the lookback limit
C11_Witness ==
    /\ Built
    /\ result.store # <<>>
    /\ \A i \in DOMAIN result.store :
          /\ GroupOfRecord(result.store[i]) = result.product_group
          /\ result.store[i].auction_date < RefDay - HISTORICAL_DATA_LMT * 365
    /\ result.auction_df = <<>>
    /\ result.kind = "ValueError"

\* the keys the claim requires of a vector built for a group
RequiredKeys(product_group) ==
    BaseFeatures \cup
        (IF normalize_product_group(product_group) = "valve" THEN ValveFeatures ELSE {})

Inferred == result.op = "run_inference"
LacksKeys == Inferred /\ ~(RequiredKeys(result.product_group) \subseteq result.columns)
NoPredictions == result.kind # "ok" /\ "predictions" \notin DOMAIN result

\* C12 as stated: whenever the feature vector lacks a required key,
\* run_inference fails without predictions and its error names every missing
\* key; when nothing is missing only the required keys are scored
C12_MissingAlwaysNamed ==
    /\ LacksKeys =>
          /\ NoPredictions
          /\ result.kind = "ValueError"
          /\ result.missing = RequiredKeys(result.product_group) \ result.columns
    /\ Inferred /\ result.kind = "ok" => result.scored = RequiredKeys(result.product_group)

\* C12 amended: a vector lacking a required key never yields predictions; the
\* error is the missing-features error naming every missing key when
\* load_models succeeded, and the error of load_models otherwise; a successful
\* call scores exactly the required keys, extra keys dropped
C12_MissingNamedAfterLoad ==
    /\ LacksKeys =>
          /\ NoPredictions
          /\ result.load = "ok" =>
                /\ result.kind = "ValueError"
                /\ result.missing = RequiredKeys(result.product_group) \ result.columns
          /\ result.load # "ok" => result.kind = result.load
    /\ Inferred /\ result.kind = "ok" =>
          /\ result.scored = RequiredKeys(result.product_group)
          /\ result.scored \subseteq result.columns

\* a valve vector without quantity and year, the regressors loaded
C12_Witness ==
    /\ LacksKeys
    /\ normalize_product_group(result.product_group) = "valve"
    /\ result.load = "ok"
    /\ result.kind = "ValueError"
    /\ result.missing = {"quantity", "year"}

\* C13: every feature vector preprocess_data returns for cylinder or valve
\* contains every key run_inference expects for the same group, so it never
\* raises the missing-features error for it
C13_VectorHasRequiredKeys ==
    BuiltOk =>
        expected_features(normalize_product_group(result.product_group))
            \subseteq DOMAIN result.features

\* a valve vector built when no metal price falls in the 7-day window
C13_Witness ==
    /\ BuiltOk
    /\ result.product_group = "valve"
    /\ MetalSince(result.market_data.copper, result.parsed_date, 7) = <<>>
    /\ ValveFeatures \subseteq DOMAIN result.features
    /\ result.features["brass_index_momentum_7d"] = Zero

\* as_of_date of the request
AsOf == to_datetime(result.input_date)

\* the retained records dated in the closed interval [as_of_date - w, as_of_date]
InInterval(w) ==
    LET Inside(row) == AsOf - w <= row.auction_date /\ row.auction_date <= AsOf
    IN  SelectSeq(Retained, Inside)

\* the retained records the build passed to the windowed statistics
UsedWindow(w) == Since(Retained, result.parsed_date, w)

WindowedKeys(w) ==
    {WindowKey("auction_frequency_", w, "d"), WindowKey("price_momentum_", w, "d"),
     WindowKey("quantity_trend_", w, "d"), WindowKey("price_volatility_", w, "d"),
     WindowKey("rolling_mean_", w, "d_proposed_rp"),
     WindowKey("rolling_mean_", w, "d_last_bid_price"),
     WindowKey("rolling_std_", w, "d_proposed_rp"),
     WindowKey("rolling_std_", w, "d_last_bid_price"),
     WindowKey("price_change_", w, "d"), WindowKey("quantity_change_", w, "d")}

\* C14: days_since_last_auction is the number of days from the most recent
\* retained record dated at or before as_of_date up to as_of_date, and is >= 0
C14_DaysSinceLastAuction ==
    BuiltOk =>
        LET earlier == {d \in {Retained[i].auction_date : i \in DOMAIN Retained} :
                           d <= AsOf}
            days == result.features["days_since_last_auction"]
        IN  /\ ~days.nan /\ days.num >= 0
            /\ earlier # {} =>
                  days = Fl[AsOf - (CHOOSE d \in earlier : \A x \in earlier : x <= d), 1]

\* C15: a 7-day or 30-day window holding at most one record gives momentum,
\* trend and both changes exactly 0, never NaN; so does the 1-day window for
\* price_change_1d and quantity_change_1d
C15_SparseWindowZero ==
    BuiltOk =>
        /\ \A w \in {7, 30} :
              Len(UsedWindow(w)) <= 1 =>
                 \A k \in {WindowKey("price_momentum_", w, "d"),
                           WindowKey("quantity_trend_", w, "d"),
                           WindowKey("price_change_", w, "d"),
                           WindowKey("quantity_change_", w, "d")} :
                    result.features[k] = Zero
        /\ Len(UsedWindow(1)) <= 1 =>
              /\ result.features["price_change_1d"] = Zero
              /\ result.features["quantity_change_1d"] = Zero

\* C16: when no retained record is dated within w days before as_of_date,
\* every windowed key of that window is present with value 0
C16_EmptyWindowZero ==
    BuiltOk =>
        \A w \in {7, 30} :
            InInterval(w) = <<>> =>
                \A k \in WindowedKeys(w) :
                    k \in DOMAIN result.features /\ result.features[k] = Zero

\* C18: the windowed features are computed from exactly the retained records
\* dated in [as_of_date - w, as_of_date], and auction_frequency_7d is the
\* number of records in the 7-day interval
C18_ClosedWindow ==
    BuiltOk =>
        /\ \A w \in {7, 30} : UsedWindow(w) = InInterval(w)
        /\ result.features["auction_frequency_7d"] = Fl[Len(InInterval(7)), 1]

\* C19: for a window of at least two records price_change and quantity_change
\* are the newest record's value minus the oldest record's value, whatever
\* the order the records are stored in
C19_NewestMinusOldest ==
    BuiltOk =>
        \A w \in {7, 30} :
            LET win == UsedWindow(w)
                dates == {win[i].auction_date : i \in DOMAIN win}
            IN  Len(win) >= 2 =>
                   \E newest \in DOMAIN win, oldest \in DOMAIN win :
                      /\ \A d \in dates : d <= win[newest].auction_date
                      /\ \A d \in dates : win[oldest].auction_date <= d
                      /\ result.features[WindowKey("price_change_", w, "d")] =
                            Fl[win[newest].proposed_rp - win[oldest].proposed_rp, 1]
                      /\ result.features[WindowKey("quantity_change_", w, "d")] =
                            Fl[win[newest].quantity - win[oldest].quantity, 1]

\* the price of the entry with the greatest date at or before as_of_date, or
\* the configured default when there is none
LatestPrice(df, default) ==
    LET upto == {i \in DOMAIN df : df[i].date <= AsOf}
    IN  IF upto = {} THEN default
        ELSE df[CHOOSE i \in upto : \A j \in upto : df[j].date <= df[i].date].price

\* C20: a valve request with history uses, for copper and for zinc, the price
\* of the entry with the greatest date at or before as_of_date whatever the
\* order of the entries, and the configured default when there is no such
\* entry; the build does not fail
C20_LatestMetalPrice ==
    Built /\ result.product_group = "valve" /\ Retained # <<>> =>
        /\ result.kind = "ok"
        /\ result.latest_copper = LatestPrice(result.market_data.copper, COPPER_PRICE_DEF)
        /\ result.latest_zinc = LatestPrice(result.market_data.zinc, ZINC_PRICE_DEF)

Answered == result.op = "predict"

\* what the claim calls a date in YYYY-MM-DD format, and a group that resolves
YearMonthDay(date) == date.separator = "-" /\ date.padded
Resolves(product_group) == product_group \in {"cylinder", "Cylinders", "valve", "VALVES"}

\* C17: a request whose product_group does not resolve to cylinder or valve,
\* or whose date is not in YYYY-MM-DD format, is rejected before any core
\* operation is invoked
C17_RejectedBeforeCore ==
    /\ Answered
    /\ ~Resolves(result.request.product_group) \/ ~YearMonthDay(result.request.date)
    => result.status = 422 /\ result.calls = <<>>

\* an entry of MODELS that holds all six regressors (2 targets x 3 quantiles)
FullBundle(entry) ==
    /\ DOMAIN entry = TargetSet
    /\ \A t \in TargetSet : DOMAIN entry[t] = QuantileSet

\* C21: in every state of MODELS, also after a load_models call that failed
\* on a missing artifact, the entry of a normalized group is absent or holds
\* all six regressors, and no load_models call returns a partial bundle
C21_AbsentOrComplete ==
    /\ \A k \in DOMAIN MODELS : FullBundle(MODELS[k])
    /\ (/\ result.op = "load_models"
        /\ result.kind = "ok"
        /\ normalize_product_group(result.product_group) # "brass")
            => FullBundle(result.bundle)

\* C22: in live mode the price window load_market_data asks for on behalf of
\* a prediction request is [as_of_date - 30 days, as_of_date], as_of_date being
\* the date of that request, and the cache key is that same pair
C22_WindowOfRequest ==
    (/\ Answered
     /\ DATA_SOURCE = "api"
     /\ result.calls # <<>>) =>
        /\ result.market_key # None
        /\ to_datetime(result.market_key[1]) =
                to_datetime(strptime(result.request.date).value) - DefaultLookbackDays
        /\ to_datetime(result.market_key[2]) =
                to_datetime(strptime(result.request.date).value)

\* the latest auction_date of the retained records of the group
LatestRetained ==
    CHOOSE d \in {Retained[i].auction_date : i \in DOMAIN Retained} :
        \A i \in DOMAIN Retained : Retained[i].auction_date <= d

\* C23: days_since_last_auction is never positive in a returned feature
\* vector, and it is 0 whenever the request date is on or after the latest
\* auction_date of the retained records of the group
C23_NeverPositive ==
    BuiltOk =>
        /\ ~result.features["days_since_last_auction"].nan
        /\ result.features["days_since_last_auction"].num <= 0
        /\ AsOf >= LatestRetained =>
                result.features["days_since_last_auction"] = Zero

\* the last auction of the group was 20 days before the request, reported as 0
C23_Witness ==
    /\ BuiltOk
    /\ AsOf - LatestRetained = 20
    /\ result.parsed_date = LatestRetained
    /\ result.features["days_since_last_auction"] = Zero

\* a load_metal_prices call that returned neither cached nor fetched series:
\* it went to _get_fallback_metal_prices
EndedInFallback ==
    result.op = "load_metal_prices" /\ result.kind \notin {"cached", "fetched"}

\* C24: METAL_PRICE_CACHE gets an entry only from a successful, non-empty API
\* response, an entry once stored is never overwritten or removed, and after
\* a call that ended in fallback the next call for the same window attempts
\* the API again
C24_CacheOnlyFromApi ==
    [][/\ \A k \in DOMAIN METAL_PRICE_CACHE :
             /\ k \in DOMAIN METAL_PRICE_CACHE'
             /\ METAL_PRICE_CACHE'[k] = METAL_PRICE_CACHE[k]
       /\ \A k \in DOMAIN METAL_PRICE_CACHE' \ DOMAIN METAL_PRICE_CACHE :
             /\ result'.kind = "fetched"
             /\ AnswersWithRates(result'.responses)
       /\ (/\ EndedInFallback
           /\ result'.op = "load_metal_prices"
           /\ result'.key = result.key)
               => result'.attempts >= 1]_vars

====
